---- MODULE Spec2Model ----
(***************************************************************************)
(* Model of the explicit-error core: the Fault container, the exit-crate   *)
(* DomainError, the two-case Error container, the escalation combinators   *)
(* and the selective-recovery matcher try_map_on_source.                   *)
(*                                                                         *)
(* Option<T> is a sequence of length 0 (None) or 1 (Some).  A type-erased  *)
(* Box<dyn StdError> is a record [ty, val, src]: ty is the concrete type   *)
(* (what `is::<S>()` / `downcast::<S>()` look at), val its payload and src *)
(* what its own std::error::Error::source() returns.                       *)
(***************************************************************************)
EXTENDS Integers, Sequences, FiniteSets, TLC

VARIABLES
    rustBacktrace,  \* process environment: RUST_BACKTRACE / RUST_LIB_BACKTRACE enabled
    res,            \* the value the program currently holds
    prev,           \* the value the last operation consumed
    last,           \* the last operation: name, arguments, closure calls, panic
    origin,         \* the Error as first created (before any propagation step)
    ctxLog          \* the context texts applied since the value was created

vars == <<rustBacktrace, res, prev, last, origin, ctxLog>>

\* ---------------------------------------------------------------- bounds
MaxCtxCalls == 2

\* ---------------------------------------------------------------- Option
None == <<>>
Some(x) == <<x>>
is_some(o) == Len(o) > 0
is_none(o) == Len(o) = 0
unwrap_option(o) == o[1]

\* ------------------------------------------------- concrete error values
MyError(b) == [ty |-> "MyError", val |-> b, src |-> None]
SqlxRowNotFound == [ty |-> "sqlx::Error", val |-> "RowNotFound", src |-> None]
Chain1(e) == [ty |-> "Chain1", val |-> "", src |-> Some(e)]
Chain0(e) == [ty |-> "Chain0", val |-> "", src |-> Some(e)]

\* The failures a caller can hand in (the values the tests use).
StdErrors ==
    { MyError("true"), MyError("false"), SqlxRowNotFound,
      Chain1(MyError("true")), Chain0(Chain1(MyError("true"))) }

\* The type parameter S of try_map_on_source.
SourceTypes == {"MyError", "sqlx::Error", "Chain1", "MyDomainError"}

\* Mutant: the type test walks the source() chain.
RECURSIVE is_in_chain(_, _)
is_in_chain(e, S) ==
    e.ty = S \/ (Len(e.src) > 0 /\ is_in_chain(e.src[1], S))

\* <dyn StdError>::is::<S>()
is(e, S) == e.ty = S

\* Box<dyn StdError>::downcast::<S>(): the value when it has concrete type
\* S, otherwise the box given back.
downcast(e, S) ==
    IF is(e, S) THEN [tag |-> "Ok", v |-> e] ELSE [tag |-> "Err", v |-> e]

\* std::error::Error::source() of a concrete error value
std_source(e) == e.src

\* #[derive(Debug)] on the error types: a tuple struct prints its name and
\* its field, a unit enum variant its name.
RECURSIVE fmt_Debug(_)
fmt_Debug(e) ==
    CASE e.ty = "MyError" -> "MyError(" \o e.val \o ")"
      [] e.ty \in {"Chain1", "Chain0"} -> e.ty \o "(" \o fmt_Debug(e.src[1]) \o ")"
      [] OTHER -> e.val

\* impl Display of the error types: MyError writes its flag, Chain1 and
\* Chain0 both write "Chain1", sqlx::Error its message.
fmt_Display(e) ==
    CASE e.ty = "MyError" -> e.val
      [] e.ty \in {"Chain1", "Chain0"} -> "Chain1"
      [] e.ty = "sqlx::Error" /\ e.val = "RowNotFound" ->
            "no rows returned by a query that expected to return at least one row"
      [] e.ty = "sqlx::Error" /\ e.val = "PoolClosed" ->
            "attempted to acquire a connection on a closed pool"
      [] OTHER -> e.val

\* Mutant: the loop body runs at most once.
errors_chain_debug_one_link(source) ==
    fmt_Debug(source)
        \o (IF is_some(std_source(source))
            THEN "->" \o fmt_Debug(unwrap_option(std_source(source)))
            ELSE "")

\* errors_chain_debug: Debug of the error, then "->" and Debug of each
\* error down its source() chain.
RECURSIVE errors_chain_debug(_)
errors_chain_debug(source) ==
    fmt_Debug(source)
        \o (IF is_some(std_source(source))
            THEN "->" \o errors_chain_debug(unwrap_option(std_source(source)))
            ELSE "")

\* ---------------------------------------------------- Display arguments
\* `context: impl Display` is rendered with to_string(): a &str renders as
\* its characters, an integer as its decimal digits.
Str(s) == [kind |-> "str", s |-> s, n |-> 0]
Int10(n) == [kind |-> "int", s |-> "", n |-> n]
DisplayArgs == {Str("first"), Str("second"), Int10(42)}

Digit(d) == CASE d = 0 -> "0" [] d = 1 -> "1" [] d = 2 -> "2" [] d = 3 -> "3"
              [] d = 4 -> "4" [] d = 5 -> "5" [] d = 6 -> "6" [] d = 7 -> "7"
              [] d = 8 -> "8" [] d = 9 -> "9"

RECURSIVE Decimal(_)
Decimal(n) == IF n < 10 THEN Digit(n) ELSE Decimal(n \div 10) \o Digit(n % 10)

to_string(d) == IF d.kind = "str" THEN d.s ELSE Decimal(d.n)

\* ------------------------------------------------------------- Backtrace
\* Backtrace::capture() walks the stack only when the environment enables
\* backtraces; Backtrace::force_capture() always does.
Backtrace_capture(enabled) == IF enabled THEN "Captured" ELSE "Disabled"
Backtrace_force_capture == "Captured"

\* ----------------------------------------------------------------- Fault
\* Mutant: new() never captures, whatever the environment says.
Fault_new_disabled(enabled) ==
    [source |-> None, backtrace |-> "Disabled", context |-> None]

Fault_new(enabled) ==
    [source |-> None, backtrace |-> Backtrace_capture(enabled), context |-> None]

Fault_new_force ==
    [source |-> None, backtrace |-> Backtrace_force_capture, context |-> None]

\* Mutant: the source is attached to a new Fault.
Fault_with_source_fresh(self, error) ==
    [source |-> Some(error), backtrace |-> "Disabled", context |-> None]

Fault_with_source(self, error) ==
    [source |-> Some(error), backtrace |-> self.backtrace, context |-> self.context]

\* Mutant: the text is appended to the context already there.
Fault_with_context_concat(self, context) ==
    [source |-> self.source, backtrace |-> self.backtrace,
     context |-> IF is_some(self.context)
                 THEN Some(unwrap_option(self.context) \o to_string(context))
                 ELSE Some(to_string(context))]

\* Mutant: the trace is captured when a context is set.
Fault_with_context_recapture(self, context) ==
    [source |-> self.source, backtrace |-> "Captured",
     context |-> Some(to_string(context))]

Fault_with_context(self, context) ==
    [source |-> self.source, backtrace |-> self.backtrace,
     context |-> Some(to_string(context))]

\* impl StdError for Fault: source()
Fault_source(self) == self.source

\* impl Display for Backtrace: the frames when captured, otherwise a
\* phrase naming the status.
Backtrace_fmt(status) ==
    CASE status = "Captured" -> "   0: <frame>"
      [] status = "Disabled" -> "disabled backtrace"
      [] OTHER -> "unsupported backtrace"

\* Mutant: the trace is written whatever its status.
Fault_fmt_always_trace(self) ==
    Backtrace_fmt(self.backtrace) \o "\n ----------------------- \n\n"
        \o (IF is_some(self.context)
            THEN "Context: " \o unwrap_option(self.context) \o "\n" ELSE "")
        \o (IF is_some(self.source)
            THEN "Source: " \o errors_chain_debug(unwrap_option(self.source)) \o ", "
                     \o fmt_Display(unwrap_option(self.source)) \o "\n"
            ELSE "")

\* impl Display for Fault
Fault_fmt(self) ==
    (IF self.backtrace = "Captured"
     THEN Backtrace_fmt(self.backtrace) \o "\n ----------------------- \n\n" ELSE "")
        \o (IF is_some(self.context)
            THEN "Context: " \o unwrap_option(self.context) \o "\n" ELSE "")
        \o (IF is_some(self.source)
            THEN "Source: " \o errors_chain_debug(unwrap_option(self.source)) \o ", "
                     \o fmt_Display(unwrap_option(self.source)) \o "\n"
            ELSE "")

\* ------------------------------------------------- ExitError, DomainError
ExitError_new(message, exit_code) ==
    [message |-> message, exit_code |-> exit_code, context |-> None]

ExitError_with_context(self, context) ==
    [self EXCEPT !.context = Some(to_string(context))]

\* Mutant: the owned extraction finds nothing.
DomainError_into_source_none(self) == None

DomainError_source(self) == self.source
DomainError_into_source(self) == self.source
DomainError_context(self) == self.output.context

\* Mutant: the DomainError is rebuilt from its output alone.
DomainError_with_context_drop_source(self, context) ==
    [output |-> ExitError_with_context(self.output, context), source |-> None]

DomainError_with_context(self, context) ==
    [self EXCEPT !.output = ExitError_with_context(self.output, context)]

\* The ExitError values callers build (ExitError::new, then with_context).
ExitErrors ==
    { ExitError_new("", 0),
      ExitError_with_context(ExitError_new("oops", 42), Str("built")) }

\* ------------------------------------------------------------- HttpError
\* A value that implements Serialize, as serde sees it: a struct or map
\* with its entries, or a string.
JsonMap(entries) == [json |-> "object", entries |-> entries, text |-> ""]
JsonStr(text) == [json |-> "string", entries |-> {}, text |-> text]

\* The public bodies callers build: ErrorBody { foo: "foo", bar: 42 },
\* ProblemDetails with a title, and the string "".
PublicBodies ==
    { JsonMap({<<"bar", "42">>, <<"foo", "foo">>}),
      JsonMap({<<"title", "Forbidden">>}),
      JsonStr("") }

\* StatusCode::BAD_REQUEST, StatusCode::FORBIDDEN
StatusCodes == {400, 403}

HttpError_new(http_status_code, public) ==
    [http_status_code |-> http_status_code, public |-> public, context |-> None]

HttpError_with_context(self, context) ==
    [self EXCEPT !.context = Some(to_string(context))]

\* The HttpError values callers build (HttpError::new, then with_context).
HttpErrors ==
    UNION { { HttpError_new(c, b), HttpError_with_context(HttpError_new(c, b), Str("built")) }
            : <<c, b>> \in StatusCodes \X PublicBodies }

\* ----------------------------------------------------- Error container
Error_Domain(d) == [case |-> "Domain", d |-> d]
Error_Fault(f) == [case |-> "Fault", f |-> f]

is_domain(self) == self.case = "Domain"
is_fault(self) == ~is_domain(self)

Error_context(self) ==
    IF self.case = "Domain" THEN DomainError_context(self.d) ELSE self.f.context

\* Mutant: the Fault case starts from a new Fault.
Error_with_context_new_fault(self, context) ==
    IF self.case = "Domain"
    THEN Error_Domain(DomainError_with_context(self.d, context))
    ELSE Error_Fault(Fault_with_context(
             [source |-> None, backtrace |-> "Disabled", context |-> None], context))

Error_with_context(self, context) ==
    IF self.case = "Domain"
    THEN Error_Domain(DomainError_with_context(self.d, context))
    ELSE Error_Fault(Fault_with_context(self.f, context))

\* The Domain value or the Fault as a Box<dyn StdError>: its concrete type,
\* its source() and the value inside.
Box_Domain(d) ==
    [ty |-> "DomainError", val |-> "", src |-> DomainError_source(d), inner |-> d]
Box_Fault(f) ==
    [ty |-> "Fault", val |-> "", src |-> Fault_source(f), inner |-> f]

\* *o on a Box downcast to its concrete type
unbox(b) == IF b.ty \in {"DomainError", "Fault"} THEN b.inner ELSE b

\* Option::or
Option_or(self, optb) == IF is_some(self) THEN self ELSE optb

\* Mutant: the source of the wrapped value is handed on as it is.
Error_source_plain(self) ==
    IF self.case = "Domain" THEN DomainError_source(self.d) ELSE Fault_source(self.f)

\* impl StdError for Error<D>: source()
Error_source(self) ==
    IF self.case = "Domain"
    THEN Option_or(DomainError_source(self.d), Some(Box_Domain(self.d)))
    ELSE Option_or(Fault_source(self.f), Some(Box_Fault(self.f)))

\* Mutant: the wrapped value is boxed whether or not it holds a source.
downcast_source_box_wrapper(self) ==
    IF self.case = "Domain"
    THEN [box |-> Some(Box_Domain(self.d)), panic |-> None]
    ELSE [box |-> Some(Box_Fault(self.f)), panic |-> None]

\* Error::downcast_source, the match that picks the box to downcast:
\* [box, panic]
downcast_source_box(self) ==
    IF self.case = "Domain"
    THEN IF is_some(DomainError_source(self.d))
         THEN IF is_none(DomainError_into_source(self.d))
              THEN [box |-> None,
                    panic |-> Some([msg |-> <<"called", "Option::unwrap()", "on", "a",
                                              "None", "value">>])]
              ELSE [box |-> Some(unwrap_option(DomainError_into_source(self.d))),
                    panic |-> None]
         ELSE [box |-> Some(Box_Domain(self.d)), panic |-> None]
    ELSE IF is_some(Fault_source(self.f))
         THEN [box |-> Some(unwrap_option(self.f.source)), panic |-> None]
         ELSE [box |-> Some(Box_Fault(self.f)), panic |-> None]

\* Mutant: when the held source is of another type the wrapped value is
\* tried next.
downcast_source_fallback(self, E) ==
    LET x == downcast_source_box(self)
        wrapped == IF self.case = "Domain" THEN Box_Domain(self.d) ELSE Box_Fault(self.f)
        r == downcast(unwrap_option(x.box), E)
        r2 == IF r.tag = "Ok" THEN r ELSE downcast(wrapped, E)
    IN [out |-> IF r2.tag = "Ok" THEN [tag |-> "Ok", v |-> unbox(r2.v)] ELSE r,
        box |-> x.box, panic |-> None]

\* Error::downcast_source::<E>: [out, box, panic]
downcast_source(self, E) ==
    LET x == downcast_source_box(self) IN
    IF is_some(x.panic)
    THEN [out |-> [tag |-> "!", v |-> unwrap_option(x.panic)], box |-> None,
          panic |-> x.panic]
    ELSE LET r == downcast(unwrap_option(x.box), E) IN
         [out |-> IF r.tag = "Ok" THEN [tag |-> "Ok", v |-> unbox(r.v)] ELSE r,
          box |-> x.box, panic |-> None]

\* `domain as &dyn StdError` with domain: &Box<D>. Box<D> implements
\* StdError itself, so the reference is unsized as it stands: the trait
\* object's concrete type is Box<D>, and its source() is that of D.
Ref_Box_Domain(d) ==
    [ty |-> "Box<DomainError>", val |-> "", src |-> DomainError_source(d), inner |-> d]

\* <dyn StdError>::downcast_ref::<E>()
downcast_ref(e, E) == IF is(e, E) THEN Some(e) ELSE None

\* Error::downcast_source_ref::<E>
downcast_source_ref(self, E) ==
    downcast_ref(
        IF self.case = "Domain"
        THEN IF is_some(DomainError_source(self.d))
             THEN unwrap_option(DomainError_source(self.d))
             ELSE Ref_Box_Domain(self.d)
        ELSE IF is_some(Fault_source(self.f))
             THEN unwrap_option(Fault_source(self.f))
             ELSE Box_Fault(self.f),
        E)

\* The type parameter E of downcast_source.
DowncastTypes == {"MyError", "sqlx::Error", "Chain1", "DomainError", "Fault"}

\* The type parameter E of downcast_source_ref.
RefDowncastTypes == DowncastTypes \cup {"Box<DomainError>"}

\* panic!("{msg}: {error:?}"); a message is the sequence of its words
unwrap_failed(msg, error) == [msg |-> msg, error |-> error]

\* Error::unwrap: [panic, v]
Error_unwrap(self) ==
    IF self.case = "Domain"
    THEN [panic |-> None, v |-> Some(self.d)]
    ELSE [panic |-> Some(unwrap_failed(
                            <<"called", "Error::unwrap()", "on", "an", "Fault", "value">>,
                            self.f)),
          v |-> None]

\* Mutant: a Domain error yields a default Fault instead of a panic.
Error_unwrap_fault_lenient(self) ==
    IF self.case = "Fault"
    THEN [panic |-> None, v |-> Some(self.f)]
    ELSE [panic |-> None,
          v |-> Some([source |-> None, backtrace |-> "Disabled", context |-> None])]

Error_unwrap_fault(self) ==
    IF self.case = "Fault"
    THEN [panic |-> None, v |-> Some(self.f)]
    ELSE [panic |-> Some(unwrap_failed(
                            <<"called", "Error::unwrap_err()", "on", "an", "Domain", "value">>,
                            self.d)),
          v |-> None]

\* --------------------------------------------- derived domain error type
\* A type deriving ExitError: the caller writes From<&MyDomainError> for
\* ExitError, the derive supplies ToDomainError.
MyDomainError(k) == [ty |-> "MyDomainError", val |-> k, src |-> None]
DomainValues == {MyDomainError("Foo"), MyDomainError("Bar")}

\* impl From<&MyDomainError> for ExitError (Bar already sets a context)
From_ref_MyDomainError(value) ==
    IF value.val = "Foo"
    THEN ExitError_new("Something went wrong because ..", 42)
    ELSE ExitError_with_context(ExitError_new("bar", 1), Str("from"))

\* Mutant: the value is not kept as the source.
to_domain_error_no_source(self) ==
    [output |-> From_ref_MyDomainError(self), source |-> None]

to_domain_error(self) ==
    [output |-> From_ref_MyDomainError(self), source |-> Some(self)]

\* A type deriving HttpError in the http crate (tests/derive.rs), its
\* From<&MyDomainError> for HttpError and the http ToDomainError.
HttpMyDomainError == [ty |-> "http::MyDomainError", val |-> "", src |-> None]

From_ref_HttpMyDomainError(value) ==
    [http_status_code |-> 400,
     public |-> [json |-> "object", entries |-> {<<"bar", "42">>, <<"foo", "foo">>},
                 text |-> ""],
     context |-> Some("context")]

Http_to_domain_error(self) ==
    [output |-> From_ref_HttpMyDomainError(self), source |-> Some(self)]

\* ------------------------------------------------- conversions to Error
From_Fault(value) == Error_Fault(value)
From_DomainError(value) == Error_Domain(value)
From_ExitError(value) == Error_Domain([output |-> value, source |-> None])

\* Mutant: the conversion starts from an output without context.
From_HttpError_no_context(value) ==
    Error_Domain([output |-> [value EXCEPT !.context = None], source |-> None])

From_HttpError(value) == Error_Domain([output |-> value, source |-> None])

\* #[derive(ExitError)] / #[derive(HttpError)]: impl From<V> for Error
From_MyDomainError(value) == Error_Domain(to_domain_error(value))
From_HttpMyDomainError(value) == Error_Domain(Http_to_domain_error(value))

\* A value of a type E: Into<Error<D>>, tagged with its type.
E_ExitError(v) == [ety |-> "ExitError", v |-> v]
E_DomainError(v) == [ety |-> "DomainError", v |-> v]
E_Fault(v) == [ety |-> "Fault", v |-> v]

into(e) ==
    CASE e.ety = "ExitError" -> From_ExitError(e.v)
      [] e.ety = "DomainError" -> From_DomainError(e.v)
      [] e.ety = "Fault" -> From_Fault(e.v)

\* --------------------------------------------------------------- Result
Ok(v) == [tag |-> "Ok", v |-> v]
Err(e) == [tag |-> "Err", v |-> e]
is_ok(r) == r.tag = "Ok"
is_err(r) == r.tag = "Err"
OptSome(v) == [tag |-> "Some", v |-> v]
OptNone == [tag |-> "None", v |-> [t |-> ""]]

\* The values of type T a successful call returns.
OkValues == {[t |-> "a"], [t |-> "b"]}

\* ------------------------------------------------------------- closures
\* The closures F: FnOnce(S) -> E handed to try_map_on_source.
\*   exit        |_| ExitError::new("", ExitCode::SUCCESS)
\*   fault       |_| Fault::new()
\*   fault_keep  |e| Fault::new().with_source(e)
\*   domain_keep |e| DomainError { output: ExitError::new(..), source: Some(Box::new(e)) }
MapOps == {"exit", "fault", "fault_keep", "domain_keep"}

apply_op(op, s, enabled) ==
    CASE op = "exit" -> E_ExitError(ExitError_new("", 0))
      [] op = "fault" -> E_Fault(Fault_new(enabled))
      [] op = "fault_keep" -> E_Fault(Fault_with_source(Fault_new(enabled), s))
      [] op = "domain_keep" ->
            E_DomainError([output |-> ExitError_new("", 0), source |-> Some(s)])

\* The classifiers F: FnOnce(S) -> Result<E, S> handed to map_err_or_fault.
\*   by_flag      |e| match e.0 { true => Ok(ExitError::new(..)), false => Err(e) }
\*   accept_fault |_| Ok(Fault::new())
\*   reject       |e| Err(e)
\*   replace      |e| Err(another value of type S), e.g. |e: MyError| Err(MyError(!e.0))
Classifiers == {"by_flag", "accept_fault", "reject", "replace"}

\* A value of the type of e that differs from e.
RECURSIVE another(_)
another(e) ==
    CASE e.ty = "MyError" -> MyError(IF e.val = "true" THEN "false" ELSE "true")
      [] e.ty = "sqlx::Error" -> [e EXCEPT !.val = "PoolClosed"]
      [] OTHER -> [e EXCEPT !.src = Some(another(e.src[1]))]

apply_classifier(op, e, enabled) ==
    CASE op = "by_flag" ->
            IF e.val = "true" THEN Ok(E_ExitError(ExitError_new("", 0))) ELSE Err(e)
      [] op = "accept_fault" -> Ok(E_Fault(Fault_new(enabled)))
      [] op = "reject" -> Err(e)
      [] op = "replace" -> Err(another(e))

\* ----------------------------------------------------------- ResultFault
\* Each combinator returns [out: the Result, calls: how often the closure
\* ran, arg: what it was handed, panic: the panic raised, if any].
Returned(out) == [out |-> out, calls |-> 0, arg |-> None, panic |-> None]
Called(out, s) == [out |-> out, calls |-> 1, arg |-> Some(s), panic |-> None]
Panicked(msg) == [out |-> [tag |-> "!", v |-> msg], calls |-> 0, arg |-> None,
                  panic |-> Some([msg |-> msg])]

map_err_or_fault(self, op, enabled) ==
    IF is_ok(self) THEN Returned(Ok(self.v))
    ELSE LET r == apply_classifier(op, self.v, enabled) IN
         Called(Err(IF is_ok(r) THEN into(r.v)
                    ELSE From_Fault(Fault_with_source(Fault_new(enabled), r.v))),
                self.v)

\* Mutant: the failure is kept as the source.
or_fault_no_source_keeps(self, enabled) ==
    IF is_ok(self) THEN Ok(self.v) ELSE Err(Fault_with_source(Fault_new(enabled), self.v))

or_fault_no_source(self, enabled) ==
    IF is_ok(self) THEN Ok(self.v) ELSE Err(Fault_new(enabled))

or_fault_no_source_force(self) ==
    IF is_ok(self) THEN Ok(self.v) ELSE Err(Fault_new_force)

\* Mutant: the failure is discarded.
or_fault_discards(self, enabled) ==
    IF is_ok(self) THEN Ok(self.v) ELSE Err(Fault_new(enabled))

or_fault(self, enabled) ==
    IF is_ok(self) THEN Ok(self.v) ELSE Err(Fault_with_source(Fault_new(enabled), self.v))

or_fault_force(self) ==
    IF is_ok(self) THEN Ok(self.v) ELSE Err(Fault_with_source(Fault_new_force, self.v))

\* ----------------------------------------------------------- OptionFault
\* Mutant: the Some arm is missing, a present value becomes a Fault too.
ok_or_fault_always(self, enabled) == Err(Fault_new(enabled))

ok_or_fault(self, enabled) ==
    IF self.tag = "Some" THEN Ok(self.v) ELSE Err(Fault_new(enabled))

ok_or_fault_force(self) ==
    IF self.tag = "Some" THEN Ok(self.v) ELSE Err(Fault_new_force)

\* ------------------------------------------------ ResultFaultWithContext
ResultFault_with_context(self, context) ==
    IF is_ok(self) THEN Ok(self.v) ELSE Err(Fault_with_context(self.v, context))

\* ----------------------------------------------------------- ResultError
\* Mutant: the mismatch branch of the Fault case rebuilds the Fault around
\* its source instead of returning the one it was given.
try_map_on_source_rebuild(self, S, op, enabled) ==
    IF is_ok(self) THEN Returned(Ok(self.v))
    ELSE LET error == self.v IN
         IF error.case = "Domain"
         THEN LET d == error.d IN
              IF is_some(DomainError_source(d))
                    /\ is(unwrap_option(DomainError_source(d)), S)
              THEN Called(Err(into(apply_op(op, unwrap_option(DomainError_into_source(d)),
                                            enabled))),
                          unwrap_option(DomainError_into_source(d)))
              ELSE Returned(Err(Error_Domain(d)))
         ELSE LET b == error.f IN
              IF is_some(b.source) /\ is(unwrap_option(b.source), S)
              THEN Called(Err(into(apply_op(op, unwrap_option(b.source), enabled))),
                          unwrap_option(b.source))
              ELSE Returned(Err(Error_Fault(
                       [source |-> b.source, backtrace |-> Backtrace_capture(enabled),
                        context |-> None])))

\* Mutant: only the Fault case is matched; a Domain error is always
\* handed back.
try_map_on_source_fault_only(self, S, op, enabled) ==
    IF is_ok(self) THEN Returned(Ok(self.v))
    ELSE LET error == self.v IN
         IF error.case = "Domain"
         THEN Returned(Err(Error_Domain(error.d)))
         ELSE LET b == error.f IN
              IF is_some(b.source) /\ is(unwrap_option(b.source), S)
              THEN Called(Err(into(apply_op(op, unwrap_option(b.source), enabled))),
                          unwrap_option(b.source))
              ELSE Returned(Err(Error_Fault(b)))

\* Mutant: on a match the cause is put back when op's result holds none.
try_map_on_source_reattach(self, S, op, enabled) ==
    IF is_ok(self) THEN Returned(Ok(self.v))
    ELSE LET error == self.v
             src == IF error.case = "Domain" THEN DomainError_source(error.d)
                    ELSE error.f.source
         IN
         IF is_some(src) /\ is(unwrap_option(src), S)
         THEN LET out == into(apply_op(op, unwrap_option(src), enabled)) IN
              Called(Err(IF out.case = "Fault" /\ is_none(out.f.source)
                         THEN Error_Fault(Fault_with_source(out.f, unwrap_option(src)))
                         ELSE IF out.case = "Domain" /\ is_none(out.d.source)
                         THEN Error_Domain([out.d EXCEPT !.source = src])
                         ELSE out),
                     unwrap_option(src))
         ELSE Returned(Err(error))

\* Mutant: on a match a context set on the input is carried over to the
\* returned Error.
try_map_on_source_keeps_context(self, S, op, enabled) ==
    IF is_ok(self) THEN Returned(Ok(self.v))
    ELSE LET error == self.v
             src == IF error.case = "Domain" THEN DomainError_source(error.d)
                    ELSE error.f.source
             ctx == Error_context(error)
         IN
         IF is_some(src) /\ is(unwrap_option(src), S)
         THEN LET out == into(apply_op(op, unwrap_option(src), enabled)) IN
              Called(Err(IF is_none(ctx) THEN out
                         ELSE IF out.case = "Fault"
                         THEN Error_Fault([out.f EXCEPT !.context = ctx])
                         ELSE Error_Domain([out.d EXCEPT !.output.context = ctx])),
                     unwrap_option(src))
         ELSE Returned(Err(error))

try_map_on_source(self, S, op, enabled) ==
    IF is_ok(self) THEN Returned(Ok(self.v))
    ELSE LET error == self.v IN
         IF error.case = "Domain"
         THEN LET d == error.d IN
              IF is_some(DomainError_source(d))
                    /\ is(unwrap_option(DomainError_source(d)), S)
              THEN LET owned == DomainError_into_source(d) IN
                   IF is_none(owned)
                   THEN Panicked(<<"called", "Option::unwrap()", "on", "a", "None", "value">>)
                   ELSE IF ~is(unwrap_option(owned), S)
                   THEN Panicked(<<"called", "Result::unwrap()", "on", "an", "Err", "value">>)
                   ELSE Called(Err(into(apply_op(op, unwrap_option(owned), enabled))),
                               unwrap_option(owned))
              ELSE Returned(Err(Error_Domain(d)))
         ELSE LET b == error.f IN
              IF is_some(b.source) /\ is(unwrap_option(b.source), S)
              THEN Called(Err(into(apply_op(op, unwrap_option(b.source), enabled))),
                          unwrap_option(b.source))
              ELSE Returned(Err(Error_Fault(b)))

\* Mutant: a Domain error that gains a context is reported as a Fault
\* holding the Domain value's source.
ResultError_with_context_as_fault(self, context) ==
    IF is_ok(self) THEN Ok(self.v)
    ELSE IF self.v.case = "Domain"
         THEN Err(From_Fault(Fault_with_context(
                  [source |-> self.v.d.source, backtrace |-> "Disabled",
                   context |-> None], context)))
         ELSE Err(From_Fault(Fault_with_context(self.v.f, context)))

ResultError_with_context(self, context) ==
    IF is_ok(self) THEN Ok(self.v)
    ELSE IF self.v.case = "Domain"
         THEN Err(From_DomainError(DomainError_with_context(self.v.d, context)))
         ELSE Err(From_Fault(Fault_with_context(self.v.f, context)))

\* http crate: impl StdError for DomainError (source) and impl Domain for
\* DomainError (into_source)
HttpDomainError_source(self) == self.source
HttpDomainError_into_source(self) == self.source

\* http crate: impl Domain for DomainError, with_context
HttpDomainError_with_context(self, context) ==
    [self EXCEPT !.output = HttpError_with_context(self.output, context)]

\* ----------------------------------------------- ResultDomainWithContext
\* Mutant: a context that From<&D> put in the output is kept.
ResultDomain_with_context_keeps(self, context) ==
    IF is_ok(self) THEN Ok(self.v)
    ELSE IF is_some(to_domain_error(self.v).output.context)
         THEN Err(to_domain_error(self.v))
         ELSE Err(DomainError_with_context(to_domain_error(self.v), context))

\* http crate: impl ResultDomainWithContext for Result<T, D>
HttpResultDomain_with_context(self, context) ==
    IF is_ok(self) THEN Ok(self.v)
    ELSE Err(HttpDomainError_with_context(Http_to_domain_error(self.v), context))

ResultDomain_with_context(self, context) ==
    IF is_ok(self) THEN Ok(self.v)
    ELSE Err(DomainError_with_context(to_domain_error(self.v), context))

\* ------------------------------------------------------- http: Serialize
\* #[serde(flatten)]: the entries of a struct or map are merged into the
\* enclosing object; anything else cannot be flattened and serialization
\* fails.
flatten(value) ==
    IF value.json = "object" THEN Ok(value)
    ELSE Err([msg |-> "can only flatten structs and maps"])

\* Mutant: the context field is serialized with the public body.
HttpError_serialize_with_context(self) ==
    LET public == flatten(self.public) IN
    IF is_err(public) THEN public
    ELSE Ok(JsonMap(public.v.entries
                    \cup {<<"context", IF is_some(self.context)
                                       THEN unwrap_option(self.context) ELSE "null">>}))

\* #[derive(Serialize)] on HttpError: http_status_code and context are
\* skipped, public is flattened.
HttpError_serialize(self) ==
    LET public == flatten(self.public) IN
    IF is_err(public) THEN public ELSE Ok(JsonMap(public.v.entries))

\* #[derive(Serialize)] on the http DomainError: output is flattened,
\* source is skipped.
HttpDomainError_serialize(self) ==
    LET output == HttpError_serialize(self.output) IN
    IF is_err(output) THEN output ELSE Ok(JsonMap(flatten(output.v).v.entries))

\* ---------------------------------------------------- http: HandlerError
\* The HandlerError implementations: "test" answers with a fixed ErrorBody
\* in both cases, "example" with the DomainError itself and a fixed
\* ProblemDetails for a Fault.
Handlers == {"test", "example"}

domain_response(h, error) ==
    IF h = "test"
    THEN [ser |-> "ErrorBody", v |-> JsonMap({<<"bar", "200">>, <<"foo", "domain">>})]
    ELSE [ser |-> "DomainError", v |-> error]

public_fault_response(h, fault) ==
    IF h = "test"
    THEN [ser |-> "ErrorBody", v |-> JsonMap({<<"bar", "500">>, <<"foo", "fault">>})]
    ELSE [ser |-> "ProblemDetails",
          v |-> JsonMap({<<"title", "Internal server error">>,
                         <<"type", "/errors/internal-server-error">>})]

\* serde_json on the value a handler method returned
to_json(body) ==
    IF body.ser = "DomainError" THEN HttpDomainError_serialize(body.v) ELSE Ok(body.v)

Frameworks == {"actix-web", "axum"}

\* HttpResponse::build(status).json(body) and (status, Json(body)): when
\* the body cannot be serialized actix-web answers with the error as an
\* internal server error, axum keeps the status and sends the error text.
json_response(framework, status, body) ==
    LET r == to_json(body) IN
    IF is_ok(r) THEN [status |-> status, body |-> r.v]
    ELSE IF framework = "actix-web" THEN [status |-> 500, body |-> r.v]
    ELSE [status |-> status, body |-> r.v]

\* Mutant: both arms build an internal server error response.
error_response_always_500(framework, h, error) ==
    IF error.case = "Domain"
    THEN json_response(framework, 500, domain_response(h, error.d))
    ELSE json_response(framework, 500, public_fault_response(h, error.f))

\* #[derive(HandlerErrorHelpers)]: ResponseError::error_response and
\* IntoResponse::into_response
error_response(framework, h, error) ==
    IF error.case = "Domain"
    THEN json_response(framework, error.d.output.http_status_code,
                       domain_response(h, error.d))
    ELSE json_response(framework, 500, public_fault_response(h, error.f))

\* ================================================================ state
\* What the program holds: a Result or Option (kind names its type), or,
\* after an unwrap, the bare value or the panic.
Hold(kind, r) == [kind |-> kind, tag |-> r.tag, v |-> r.v]
Held == [tag |-> res.tag, v |-> res.v]

RS == "Result<T, S>"
OT == "Option<T>"
RF == "Result<T, Fault>"
RE == "Result<T, Error>"
RD == "Result<T, D>"
RDE == "Result<T, DomainError>"
RB == "Result<E, Box<dyn Error>>"
HRE == "Result<T, explicit_error_http::Error>"

Op(name) ==
    [op |-> name, S |-> "", cl |-> "", ctx |-> None, calls |-> 0, arg |-> None,
     panic |-> None, from |-> None, depth |-> 0, text |-> ""]

HoldsErr(kind) == res.kind = kind /\ res.tag = "Err"

\* The origin of a freshly built Result<T, Error>.
OriginOf(r) == IF is_err(r) THEN Some(r.v) ELSE None

Init ==
    /\ rustBacktrace \in BOOLEAN
    /\ res \in {Hold(RS, Ok(v)) : v \in OkValues} \cup {Hold(RS, Err(e)) : e \in StdErrors}
    /\ prev = res
    /\ last = Op("input")
    /\ origin = None
    /\ ctxLog = <<>>

\* A fallible call returns a plain Result<T, S>.
NewResult ==
    /\ res' \in {Hold(RS, Ok(v)) : v \in OkValues} \cup {Hold(RS, Err(e)) : e \in StdErrors}
    /\ prev' = res'
    /\ last' = Op("input")
    /\ origin' = None
    /\ ctxLog' = <<>>
    /\ UNCHANGED rustBacktrace

\* A lookup returns an Option<T>.
NewOption ==
    /\ res' \in {Hold(OT, OptSome(v)) : v \in OkValues} \cup {Hold(OT, OptNone)}
    /\ prev' = res'
    /\ last' = Op("input_option")
    /\ origin' = None
    /\ ctxLog' = <<>>
    /\ UNCHANGED rustBacktrace

\* Err(Fault::new())
FaultNew ==
    /\ res' = Hold(RF, Err(Fault_new(rustBacktrace)))
    /\ prev' = res'
    /\ last' = Op("Fault::new")
    /\ origin' = None
    /\ ctxLog' = <<>>
    /\ UNCHANGED rustBacktrace

\* Err(Fault::new_force())
FaultNewForce ==
    /\ res' = Hold(RF, Err(Fault_new_force))
    /\ prev' = res'
    /\ last' = Op("Fault::new_force")
    /\ origin' = None
    /\ ctxLog' = <<>>
    /\ UNCHANGED rustBacktrace

\* fault.with_source(e) on the Fault held in Err
FaultWithSource ==
    /\ HoldsErr(RF)
    /\ \E e \in StdErrors :
          /\ res' = Hold(RF, Err(Fault_with_source(res.v, e)))
          /\ last' = [Op("Fault::with_source") EXCEPT !.arg = Some(e)]
    /\ prev' = res
    /\ UNCHANGED <<rustBacktrace, origin, ctxLog>>

\* fault.with_context(c) on the Fault held in Err
FaultWithContext ==
    /\ HoldsErr(RF)
    /\ Len(ctxLog) < MaxCtxCalls
    /\ \E c \in DisplayArgs :
          /\ res' = Hold(RF, Err(Fault_with_context(res.v, c)))
          /\ last' = [Op("Fault::with_context") EXCEPT !.ctx = Some(c)]
          /\ ctxLog' = Append(ctxLog, to_string(c))
    /\ prev' = res
    /\ UNCHANGED <<rustBacktrace, origin>>

\* result.with_context(c) on a Result<T, Fault>
ResultFaultWithContext ==
    /\ res.kind = RF
    /\ Len(ctxLog) < MaxCtxCalls
    /\ \E c \in DisplayArgs :
          /\ res' = Hold(RF, ResultFault_with_context(Held, c))
          /\ last' = [Op("ResultFaultWithContext::with_context") EXCEPT !.ctx = Some(c)]
          /\ ctxLog' = IF is_err(Held) THEN Append(ctxLog, to_string(c)) ELSE ctxLog
    /\ prev' = res
    /\ UNCHANGED <<rustBacktrace, origin>>

OrFault ==
    /\ res.kind = RS
    /\ res' = Hold(RF, or_fault(Held, rustBacktrace))
    /\ prev' = res
    /\ last' = Op("or_fault")
    /\ origin' = None
    /\ ctxLog' = <<>>
    /\ UNCHANGED rustBacktrace

OrFaultForce ==
    /\ res.kind = RS
    /\ res' = Hold(RF, or_fault_force(Held))
    /\ prev' = res
    /\ last' = Op("or_fault_force")
    /\ origin' = None
    /\ ctxLog' = <<>>
    /\ UNCHANGED rustBacktrace

OrFaultNoSource ==
    /\ res.kind = RS
    /\ res' = Hold(RF, or_fault_no_source(Held, rustBacktrace))
    /\ prev' = res
    /\ last' = Op("or_fault_no_source")
    /\ origin' = None
    /\ ctxLog' = <<>>
    /\ UNCHANGED rustBacktrace

OrFaultNoSourceForce ==
    /\ res.kind = RS
    /\ res' = Hold(RF, or_fault_no_source_force(Held))
    /\ prev' = res
    /\ last' = Op("or_fault_no_source_force")
    /\ origin' = None
    /\ ctxLog' = <<>>
    /\ UNCHANGED rustBacktrace

OkOrFault ==
    /\ res.kind = OT
    /\ res' = Hold(RF, ok_or_fault(Held, rustBacktrace))
    /\ prev' = res
    /\ last' = Op("ok_or_fault")
    /\ origin' = None
    /\ ctxLog' = <<>>
    /\ UNCHANGED rustBacktrace

OkOrFaultForce ==
    /\ res.kind = OT
    /\ res' = Hold(RF, ok_or_fault_force(Held))
    /\ prev' = res
    /\ last' = Op("ok_or_fault_force")
    /\ origin' = None
    /\ ctxLog' = <<>>
    /\ UNCHANGED rustBacktrace

MapErrOrFault ==
    /\ res.kind = RS
    /\ \E cl \in Classifiers :
          LET r == map_err_or_fault(Held, cl, rustBacktrace) IN
          /\ res' = Hold(RE, r.out)
          /\ last' = [Op("map_err_or_fault") EXCEPT
                         !.cl = cl, !.calls = r.calls, !.arg = r.arg]
          /\ origin' = OriginOf(r.out)
    /\ prev' = res
    /\ ctxLog' = <<>>
    /\ UNCHANGED rustBacktrace

\* format!("{}", fault) on the Fault held in Err; the Fault is borrowed.
FaultDisplay ==
    /\ HoldsErr(RF)
    /\ res' = res
    /\ prev' = res
    /\ last' = [Op("Fault::fmt") EXCEPT !.text = Fault_fmt(res.v)]
    /\ UNCHANGED <<rustBacktrace, origin, ctxLog>>

\* `?` / From<Fault>: a Result<T, Fault> leaves a function returning Result<T, Error>
FromFault ==
    /\ res.kind = RF
    /\ \E k \in {RE, HRE} :
          res' = Hold(k, IF is_ok(Held) THEN Ok(res.v) ELSE Err(From_Fault(res.v)))
    /\ prev' = res
    /\ last' = Op("From<Fault>")
    /\ origin' = IF is_ok(Held) THEN None ELSE Some(From_Fault(res.v))
    /\ UNCHANGED <<rustBacktrace, ctxLog>>

\* Err(Error::Domain(Box::new(DomainError { output, source })))
NewDomain ==
    /\ \E o \in ExitErrors, src \in {None} \cup {Some(e) : e \in StdErrors} :
          /\ res' = Hold(RE, Err(Error_Domain([output |-> o, source |-> src])))
          /\ origin' = Some(Error_Domain([output |-> o, source |-> src]))
    /\ prev' = res'
    /\ last' = Op("Error::Domain")
    /\ ctxLog' = <<>>
    /\ UNCHANGED rustBacktrace

\* Err(Error::from(exit_error))
FromExitError ==
    /\ \E o \in ExitErrors :
          /\ res' = Hold(RE, Err(From_ExitError(o)))
          /\ origin' = Some(From_ExitError(o))
          /\ last' = [Op("From<ExitError>") EXCEPT !.arg = Some(o)]
    /\ prev' = res'
    /\ ctxLog' = <<>>
    /\ UNCHANGED rustBacktrace

\* A business rule returns a Result<T, D>, D a derived domain error type.
NewDomainResult ==
    /\ res' \in {Hold(RD, Ok(v)) : v \in OkValues}
                    \cup {Hold(RD, Err(d)) : d \in DomainValues}
    /\ prev' = res'
    /\ last' = Op("input_domain")
    /\ origin' = None
    /\ ctxLog' = <<>>
    /\ UNCHANGED rustBacktrace

\* result.with_context(c) on a Result<T, D>
ResultDomainWithContext ==
    /\ res.kind = RD
    /\ \E c \in DisplayArgs :
          /\ res' = Hold(RDE, ResultDomain_with_context(Held, c))
          /\ last' = [Op("ResultDomainWithContext::with_context") EXCEPT !.ctx = Some(c)]
    /\ prev' = res
    /\ origin' = None
    /\ ctxLog' = <<>>
    /\ UNCHANGED rustBacktrace

\* `?` / From<DomainError>: a Result<T, DomainError> leaves a function
\* returning Result<T, Error>
FromDomainError ==
    /\ res.kind = RDE
    /\ res' = Hold(RE, IF is_ok(Held) THEN Ok(res.v) ELSE Err(From_DomainError(res.v)))
    /\ prev' = res
    /\ last' = Op("From<DomainError>")
    /\ origin' = IF is_ok(Held) THEN None ELSE Some(From_DomainError(res.v))
    /\ ctxLog' = <<>>
    /\ UNCHANGED rustBacktrace

\* Err(Error::from(http_error))
FromHttpError ==
    /\ \E h \in HttpErrors :
          /\ res' = Hold(HRE, Err(From_HttpError(h)))
          /\ origin' = Some(From_HttpError(h))
          /\ last' = [Op("From<HttpError>") EXCEPT !.arg = Some(h)]
    /\ prev' = res'
    /\ ctxLog' = <<>>
    /\ UNCHANGED rustBacktrace

\* Err(Error::from(DomainError { output, source })) of the http crate
FromHttpDomainError ==
    /\ \E h \in HttpErrors, src \in {None, Some(SqlxRowNotFound), Some(MyError("true"))} :
          /\ res' = Hold(HRE, Err(From_DomainError([output |-> h, source |-> src])))
          /\ origin' = Some(From_DomainError([output |-> h, source |-> src]))
          /\ last' = [Op("http From<DomainError>") EXCEPT
                         !.arg = Some([output |-> h, source |-> src])]
    /\ prev' = res'
    /\ ctxLog' = <<>>
    /\ UNCHANGED rustBacktrace

\* `?` on a Result<T, Error> in a function returning Result<T, Error>:
\* the reflexive From<T> for T, which returns its argument.
FromIdentity ==
    /\ res.kind = RE
    /\ res' = res
    /\ prev' = res
    /\ last' = Op("From<Error>")
    /\ UNCHANGED <<rustBacktrace, origin, ctxLog>>

\* error.with_context(c) on the Error held in Err
ErrorWithContext ==
    /\ HoldsErr(RE)
    /\ Len(ctxLog) < MaxCtxCalls
    /\ \E c \in DisplayArgs :
          /\ res' = Hold(RE, Err(Error_with_context(res.v, c)))
          /\ last' = [Op("Error::with_context") EXCEPT !.ctx = Some(c)]
          /\ ctxLog' = Append(ctxLog, to_string(c))
    /\ prev' = res
    /\ UNCHANGED <<rustBacktrace, origin>>

\* result.with_context(c) on a Result<T, Error>
ResultErrorWithContext ==
    /\ res.kind = RE
    /\ Len(ctxLog) < MaxCtxCalls
    /\ \E c \in DisplayArgs :
          /\ res' = Hold(RE, ResultError_with_context(Held, c))
          /\ last' = [Op("ResultError::with_context") EXCEPT !.ctx = Some(c)]
          /\ ctxLog' = IF is_err(Held) THEN Append(ctxLog, to_string(c)) ELSE ctxLog
    /\ prev' = res
    /\ UNCHANGED <<rustBacktrace, origin>>

\* result.try_map_on_source::<_, S, _>(op)
TryMapOnSource ==
    /\ res.kind = RE
    /\ \E S \in SourceTypes, op \in MapOps :
          LET r == try_map_on_source(Held, S, op, rustBacktrace) IN
          /\ res' = IF is_some(r.panic) THEN Hold("!", r.out) ELSE Hold(RE, r.out)
          /\ last' = [Op("try_map_on_source") EXCEPT
                         !.S = S, !.cl = op, !.calls = r.calls, !.arg = r.arg,
                         !.panic = r.panic, !.from = origin, !.depth = Len(ctxLog)]
          /\ origin' = IF r.calls > 0 THEN OriginOf(r.out) ELSE origin
          /\ ctxLog' = IF r.calls > 0 THEN <<>> ELSE ctxLog
    /\ prev' = res
    /\ UNCHANGED rustBacktrace

\* error.unwrap() on the Error held in Err
Unwrap ==
    /\ HoldsErr(RE)
    /\ LET r == Error_unwrap(res.v) IN
          /\ res' = IF is_some(r.panic)
                    THEN [kind |-> "!", tag |-> "panic", v |-> unwrap_option(r.panic)]
                    ELSE [kind |-> "D", tag |-> "value", v |-> unwrap_option(r.v)]
          /\ last' = [Op("Error::unwrap") EXCEPT !.panic = r.panic]
    /\ prev' = res
    /\ UNCHANGED <<rustBacktrace, origin, ctxLog>>

\* error.unwrap_fault() on the Error held in Err
UnwrapFault ==
    /\ HoldsErr(RE)
    /\ LET r == Error_unwrap_fault(res.v) IN
          /\ res' = IF is_some(r.panic)
                    THEN [kind |-> "!", tag |-> "panic", v |-> unwrap_option(r.panic)]
                    ELSE [kind |-> "Fault", tag |-> "value", v |-> unwrap_option(r.v)]
          /\ last' = [Op("Error::unwrap_fault") EXCEPT !.panic = r.panic]
    /\ prev' = res
    /\ UNCHANGED <<rustBacktrace, origin, ctxLog>>

\* error.downcast_source::<E>() on the Error held in Err
DowncastSource ==
    /\ HoldsErr(RE)
    /\ \E E \in DowncastTypes :
          LET r == downcast_source(res.v, E) IN
          /\ res' = IF is_some(r.panic) THEN Hold("!", r.out) ELSE Hold(RB, r.out)
          /\ last' = [Op("Error::downcast_source") EXCEPT
                         !.S = E, !.arg = r.box, !.panic = r.panic]
    /\ prev' = res
    /\ UNCHANGED <<rustBacktrace, origin, ctxLog>>

\* serde_json on the HttpError or the DomainError of the Error held in Err
Serialize ==
    /\ HoldsErr(HRE)
    /\ res.v.case = "Domain"
    /\ \E ty \in {"HttpError", "DomainError"} :
          LET r == IF ty = "HttpError" THEN HttpError_serialize(res.v.d.output)
                   ELSE HttpDomainError_serialize(res.v.d) IN
          /\ res' = Hold("Result<Value, serde_json::Error>", r)
          /\ last' = [Op("serialize") EXCEPT !.S = ty]
    /\ prev' = res
    /\ UNCHANGED <<rustBacktrace, origin, ctxLog>>

\* The framework turns the handler's Err into a response.
ErrorResponse ==
    /\ HoldsErr(HRE)
    /\ \E framework \in Frameworks, h \in Handlers :
          /\ res' = [kind |-> "HttpResponse", tag |-> "response",
                     v |-> error_response(framework, h, res.v)]
          /\ last' = [Op("error_response") EXCEPT !.S = framework, !.cl = h]
    /\ prev' = res
    /\ UNCHANGED <<rustBacktrace, origin, ctxLog>>

\* error.source() on the Error held in Err; the Error is borrowed.
ErrorSource ==
    /\ HoldsErr(RE) \/ HoldsErr(HRE)
    /\ res' = res
    /\ prev' = res
    /\ last' = [Op("Error::source") EXCEPT !.arg = Error_source(res.v)]
    /\ UNCHANGED <<rustBacktrace, origin, ctxLog>>

\* `?` / From<MyDomainError>: a Result<T, D> of a derived domain error type
\* leaves a function returning Result<T, Error>
FromDerived ==
    /\ res.kind = RD
    /\ res' = Hold(RE, IF is_ok(Held) THEN Ok(res.v) ELSE Err(From_MyDomainError(res.v)))
    /\ prev' = res
    /\ last' = Op("From<MyDomainError>")
    /\ origin' = IF is_ok(Held) THEN None ELSE Some(From_MyDomainError(res.v))
    /\ ctxLog' = <<>>
    /\ UNCHANGED rustBacktrace

\* Err(Error::from(MyDomainError)) in the http crate
FromHttpDerived ==
    /\ res' = Hold(HRE, Err(From_HttpMyDomainError(HttpMyDomainError)))
    /\ prev' = res'
    /\ last' = [Op("http From<MyDomainError>") EXCEPT !.arg = Some(HttpMyDomainError)]
    /\ origin' = Some(From_HttpMyDomainError(HttpMyDomainError))
    /\ ctxLog' = <<>>
    /\ UNCHANGED rustBacktrace

\* result.with_context(c) on a Result<T, D> of the http crate, D the
\* derived type
HttpResultDomainWithContext ==
    /\ \E input \in {Ok(v) : v \in OkValues} \cup {Err(HttpMyDomainError)},
          c \in DisplayArgs :
          /\ prev' = Hold("Result<T, http D>", input)
          /\ res' = Hold("Result<T, http DomainError>",
                         HttpResultDomain_with_context(input, c))
          /\ last' = [Op("http ResultDomainWithContext::with_context") EXCEPT
                         !.ctx = Some(c)]
    /\ origin' = None
    /\ ctxLog' = <<>>
    /\ UNCHANGED rustBacktrace

\* errors_chain_debug(&e) on the failure held in Err
ErrorsChainDebug ==
    /\ HoldsErr(RS)
    /\ res' = res
    /\ prev' = res
    /\ last' = [Op("errors_chain_debug") EXCEPT
                   !.from = Some(res.v), !.text = errors_chain_debug(res.v)]
    /\ UNCHANGED <<rustBacktrace, origin, ctxLog>>

\* error.downcast_source_ref::<E>() on the Error held in Err
DowncastSourceRef ==
    /\ HoldsErr(RE)
    /\ \E E \in RefDowncastTypes :
          last' = [Op("Error::downcast_source_ref") EXCEPT
                      !.S = E, !.arg = downcast_source_ref(res.v, E)]
    /\ res' = res
    /\ prev' = res
    /\ UNCHANGED <<rustBacktrace, origin, ctxLog>>

Next ==
    \/ NewResult \/ NewOption \/ FaultNew \/ FaultNewForce
    \/ FaultWithSource \/ FaultWithContext \/ ResultFaultWithContext
    \/ OrFault \/ OrFaultForce \/ OrFaultNoSource \/ OrFaultNoSourceForce
    \/ OkOrFault \/ OkOrFaultForce \/ MapErrOrFault
    \/ FromFault \/ NewDomain \/ FromExitError \/ FromIdentity
    \/ NewDomainResult \/ ResultDomainWithContext \/ FromDomainError
    \/ FaultDisplay
    \/ DowncastSource
    \/ FromHttpError \/ FromHttpDomainError
    \/ Serialize \/ ErrorResponse
    \/ ErrorSource
    \/ FromDerived \/ FromHttpDerived
    \/ HttpResultDomainWithContext
    \/ ErrorsChainDebug
    \/ DowncastSourceRef
    \/ ErrorWithContext \/ ResultErrorWithContext
    \/ TryMapOnSource \/ Unwrap \/ UnwrapFault

Spec == Init /\ [][Next]_vars

\* =============================================================== claims
\* The source an Error immediately holds: the Domain value's source field
\* (Domain case) or the Fault's source field (Fault case).
HeldSource(error) ==
    IF error.case = "Domain" THEN error.d.source ELSE error.f.source

\* The held source is set and has concrete type S.
Matches(error, S) == Len(HeldSource(error)) = 1 /\ HeldSource(error)[1].ty = S

\* The last operation was try_map_on_source on an Err.
TriedOnErr ==
    /\ last.op = "try_map_on_source"
    /\ prev.kind = RE
    /\ prev.tag = "Err"

\* C1: try_map_on_source::<S> on an Err(Error) whose held source is absent
\* or of another concrete type returns the same Error (case, context,
\* source, trace), never runs op and does not panic.
C1_MismatchReturnsOriginal ==
    (TriedOnErr /\ ~Matches(prev.v, last.S))
        => /\ res.kind = RE
           /\ res = prev
           /\ last.calls = 0
           /\ last.arg = None
           /\ last.panic = None

\* A Fault with a captured trace, a context and a source of another type
\* went through try_map_on_source.
C1_Witness ==
    /\ TriedOnErr
    /\ prev.v.case = "Fault"
    /\ prev.v.f.backtrace = "Captured"
    /\ Len(prev.v.f.context) = 1
    /\ Len(prev.v.f.source) = 1
    /\ prev.v.f.source[1].ty # last.S

\* C2: on an Err(Error) whose held source has concrete type S,
\* try_map_on_source runs op exactly once on that source and returns
\* Err(op(source).into()).
C2_MatchAppliesOp ==
    (TriedOnErr /\ Matches(prev.v, last.S))
        => /\ last.calls = 1
           /\ last.arg = HeldSource(prev.v)
           /\ last.panic = None
           /\ res.kind = RE
           /\ res.tag = "Err"
           /\ res.v = into(apply_op(last.cl, HeldSource(prev.v)[1], rustBacktrace))

\* A Domain error was matched and op's return value made the result a Fault.
C2_Witness ==
    /\ TriedOnErr
    /\ Matches(prev.v, last.S)
    /\ prev.v.case = "Domain"
    /\ res.v.case = "Fault"

\* S occurs in the source() chain below e.
RECURSIVE OccursBelow(_, _)
OccursBelow(e, S) ==
    Len(e.src) = 1 /\ (e.src[1].ty = S \/ OccursBelow(e.src[1], S))

\* C4: when the held source has a concrete type other than S, the call is
\* a mismatch even though a value of type S lies further down the held
\* source's own source() chain.
C4_OneLevelOnly ==
    (/\ TriedOnErr
     /\ Len(HeldSource(prev.v)) = 1
     /\ HeldSource(prev.v)[1].ty # last.S
     /\ OccursBelow(HeldSource(prev.v)[1], last.S))
        => /\ res.kind = RE
           /\ res = prev
           /\ last.calls = 0

\* Chain0(Chain1(MyError)) is held and S is the type two levels down.
C4_Witness ==
    /\ TriedOnErr
    /\ Len(HeldSource(prev.v)) = 1
    /\ HeldSource(prev.v)[1].ty = "Chain0"
    /\ last.S = "MyError"
    /\ OccursBelow(HeldSource(prev.v)[1], last.S)

\* The source carried by a closure's return value, before its conversion.
E_source(e) == IF e.ety = "ExitError" THEN None ELSE e.v.source

\* The closure does not put its argument into the value it returns.
DropsArgument(op) ==
    \A s \in StdErrors : E_source(apply_op(op, s, rustBacktrace)) # Some(s)

\* C3 as stated: after a match, the source held by the returned Error is
\* never the source the input Error held.
C3_ResultNeverHoldsCause ==
    (TriedOnErr /\ Matches(prev.v, last.S))
        => HeldSource(res.v) # HeldSource(prev.v)

\* C3 amended: after a match op has run exactly once, on the cause, and
\* the returned Error holds exactly the source that op's return value
\* holds; the cause is gone whenever op does not put its argument into
\* the value it returns.
C3_CauseGoesThroughOp ==
    (TriedOnErr /\ Matches(prev.v, last.S))
        => /\ last.calls = 1
           /\ last.arg = HeldSource(prev.v)
           /\ res.kind = RE
           /\ res.tag = "Err"
           /\ HeldSource(res.v)
                = E_source(apply_op(last.cl, HeldSource(prev.v)[1], rustBacktrace))
           /\ DropsArgument(last.cl) => HeldSource(res.v) # HeldSource(prev.v)

\* A matched cause went to an op that drops it, and the result holds none.
C3_Witness ==
    /\ TriedOnErr
    /\ Matches(prev.v, last.S)
    /\ DropsArgument(last.cl)
    /\ HeldSource(res.v) = None

\* C5: try_map_on_source matches after any propagation steps exactly when
\* it matches on the Error as first created, and op then receives the
\* source that Error held.
C5_DepthIndependent ==
    (TriedOnErr /\ Len(last.from) = 1)
        => /\ (last.calls = 1) <=> Matches(last.from[1], last.S)
           /\ (last.calls = 1) => last.arg = HeldSource(last.from[1])

\* A match after as many context steps as the bound allows, on an Error
\* that no longer equals the one first created.
C5_Witness ==
    /\ TriedOnErr
    /\ Len(last.from) = 1
    /\ last.calls = 1
    /\ last.depth = MaxCtxCalls
    /\ prev.v # last.from[1]

\* The Fault the program holds, bare in a Result<T, Fault> or as the Fault
\* case of an Error.
HeldFault ==
    IF res.kind = RF /\ res.tag = "Err" THEN Some(res.v)
    ELSE IF res.kind = RE /\ res.tag = "Err" /\ res.v.case = "Fault" THEN Some(res.v.f)
    ELSE None

\* C6: after with_context calls with texts t1..tn the context of a Fault
\* is exactly tn, and a call with the text already set changes nothing.
C6_LastContextWins ==
    /\ (Len(HeldFault) = 1 /\ Len(ctxLog) > 0)
            => HeldFault[1].context = Some(ctxLog[Len(ctxLog)])
    /\ (/\ last.op = "Fault::with_context"
        /\ prev.v.context = Some(to_string(last.ctx[1])))
            => res.v = prev.v

\* Two different texts were set one after the other on a Fault.
C6_Witness ==
    /\ last.op = "Fault::with_context"
    /\ Len(ctxLog) >= 2
    /\ ctxLog[Len(ctxLog) - 1] # ctxLog[Len(ctxLog)]

\* C7: with_context on an Error (or on Err(e)) keeps the case, the held
\* source, the trace status (Fault) and the other output fields (Domain),
\* and sets the context to the given text.
C7_WithContextFrame ==
    (/\ last.op \in {"Error::with_context", "ResultError::with_context"}
     /\ prev.tag = "Err")
        => /\ res.kind = RE
           /\ res.tag = "Err"
           /\ is_domain(res.v) = is_domain(prev.v)
           /\ is_fault(res.v) = is_fault(prev.v)
           /\ Error_context(res.v) = Some(to_string(last.ctx[1]))
           /\ HeldSource(res.v) = HeldSource(prev.v)
           /\ prev.v.case = "Fault" => res.v.f.backtrace = prev.v.f.backtrace
           /\ prev.v.case = "Domain"
                => /\ res.v.d.output.message = prev.v.d.output.message
                   /\ res.v.d.output.exit_code = prev.v.d.output.exit_code

\* A Fault with a source and a captured trace was given a context.
C7_Witness ==
    /\ last.op = "Error::with_context"
    /\ prev.v.case = "Fault"
    /\ Len(prev.v.f.source) = 1
    /\ prev.v.f.backtrace = "Captured"
    /\ Len(prev.v.f.context) = 1

NonForcedPaths == {"Fault::new", "or_fault", "or_fault_no_source", "ok_or_fault"}
ForcedPaths ==
    {"Fault::new_force", "or_fault_force", "or_fault_no_source_force", "ok_or_fault_force"}

\* The last operation took the rejecting branch of map_err_or_fault.
Rejected ==
    /\ last.op = "map_err_or_fault"
    /\ prev.tag = "Err"
    /\ apply_classifier(last.cl, prev.v, rustBacktrace).tag = "Err"

Names(msg, word) == \E i \in 1..Len(msg) : msg[i] = word

\* C9: unwrap returns the Domain value and unwrap_fault the Fault, each
\* unchanged, on its own case; on the other case each panics with a
\* message naming that case and returns nothing.
C9_UnwrapOwnCaseOnly ==
    /\ (last.op = "Error::unwrap" /\ prev.v.case = "Domain")
            => res.kind = "D" /\ res.v = prev.v.d /\ last.panic = None
    /\ (last.op = "Error::unwrap_fault" /\ prev.v.case = "Fault")
            => res.kind = "Fault" /\ res.v = prev.v.f /\ last.panic = None
    /\ (last.op = "Error::unwrap" /\ prev.v.case = "Fault")
            => /\ res.kind = "!"
               /\ Len(last.panic) = 1
               /\ Names(last.panic[1].msg, "Fault")
    /\ (last.op = "Error::unwrap_fault" /\ prev.v.case = "Domain")
            => /\ res.kind = "!"
               /\ Len(last.panic) = 1
               /\ Names(last.panic[1].msg, "Domain")

\* unwrap_fault was called on a Domain error that holds a source.
C9_Witness ==
    /\ last.op = "Error::unwrap_fault"
    /\ prev.v.case = "Domain"
    /\ Len(prev.v.d.source) = 1
    /\ res.kind = "!"

\* C10: when the classifier of map_err_or_fault accepts the failure
\* (returns Ok), the resulting Error is in the Domain case.
C10_AcceptedIsDomain ==
    (/\ last.op = "map_err_or_fault"
     /\ prev.tag = "Err"
     /\ apply_classifier(last.cl, prev.v, rustBacktrace).tag = "Ok")
        => res.tag = "Err" /\ res.v.case = "Domain"

\* C11: when the classifier of map_err_or_fault does not accept the failure
\* X (returns Err), the result is Err(Error::Fault) of a Fault without
\* context whose source is X, and the classifier ran exactly once.
C11_RejectedKeepsOriginal ==
    (/\ last.op = "map_err_or_fault"
     /\ prev.tag = "Err"
     /\ apply_classifier(last.cl, prev.v, rustBacktrace).tag = "Err")
        => /\ res.tag = "Err"
           /\ res.v.case = "Fault"
           /\ res.v.f.context = None
           /\ res.v.f.source = Some(prev.v)
           /\ last.calls = 1

\* C12: or_fault and or_fault_force on Err(X) give Err(Fault) whose source,
\* downcast to the type of X, equals X, and whose context is absent.
C12_OrFaultKeepsCause ==
    (last.op \in {"or_fault", "or_fault_force"} /\ prev.tag = "Err")
        => /\ res.kind = RF
           /\ res.tag = "Err"
           /\ is_some(res.v.source)
           /\ downcast(unwrap_option(res.v.source), prev.v.ty) = Ok(prev.v)
           /\ res.v.context = None

\* or_fault ran on a failure that has a source chain of its own.
C12_Witness ==
    /\ last.op = "or_fault"
    /\ prev.tag = "Err"
    /\ prev.v.ty = "Chain0"
    /\ res.tag = "Err"

\* The constructions that build a Fault from nothing.
BarePaths ==
    {"Fault::new", "Fault::new_force", "or_fault_no_source",
     "or_fault_no_source_force", "ok_or_fault", "ok_or_fault_force"}

\* C13: a Fault built by Fault::new, Fault::new_force, or_fault_no_source,
\* or_fault_no_source_force, ok_or_fault or ok_or_fault_force has no source
\* and no context, whatever failure value was handed in.
C13_BareFaultsCarryNothing ==
    (last.op \in BarePaths /\ res.tag = "Err")
        => /\ res.kind = RF
           /\ res.v.source = None
           /\ res.v.context = None

\* or_fault_no_source discarded a failure that has a source of its own.
C13_Witness ==
    /\ last.op = "or_fault_no_source"
    /\ prev.tag = "Err"
    /\ prev.v.ty = "Chain1"
    /\ res.tag = "Err"

\* The combinators on Result and Option.
Combinators ==
    {"map_err_or_fault", "or_fault", "or_fault_force", "or_fault_no_source",
     "or_fault_no_source_force", "ok_or_fault", "ok_or_fault_force",
     "try_map_on_source", "ResultError::with_context",
     "ResultFaultWithContext::with_context",
     "ResultDomainWithContext::with_context"}

\* C14: a combinator returns Ok exactly when its input is Ok (Some for the
\* Option combinators); the value is then the one handed in and the closure
\* did not run.
C14_OkIffOk ==
    last.op \in Combinators
        => /\ (res.tag = "Ok") <=> (prev.tag \in {"Ok", "Some"})
           /\ (prev.tag \in {"Ok", "Some"})
                => /\ res.v = prev.v
                   /\ last.calls = 0
                   /\ last.arg = None

\* A present value went through ok_or_fault.
C14_Witness ==
    /\ last.op = "ok_or_fault"
    /\ prev.tag = "Some"
    /\ res.tag = "Ok"
    /\ res.v = prev.v

\* The three sections of a rendered Fault, each empty when its datum is
\* absent.
TraceSection(f) ==
    IF f.backtrace = "Captured"
    THEN Backtrace_fmt("Captured") \o "\n ----------------------- \n\n" ELSE ""

ContextSection(f) ==
    IF f.context = None THEN "" ELSE "Context: " \o f.context[1] \o "\n"

SourceSection(f) ==
    IF f.source = None THEN ""
    ELSE "Source: " \o errors_chain_debug(f.source[1]) \o ", "
             \o fmt_Display(f.source[1]) \o "\n"

\* C15: the Display rendering of a Fault is the trace section (only when
\* the trace is Captured), then the Context line (only when a context is
\* set), then the source section with the causal chain and the description
\* of the source (only when a source is set); a Fault with none of the
\* three renders as the empty string.
C15_DisplaySections ==
    last.op = "Fault::fmt"
        => /\ last.text = TraceSection(prev.v) \o ContextSection(prev.v)
                              \o SourceSection(prev.v)
           /\ (/\ prev.v.backtrace # "Captured"
               /\ prev.v.context = None
               /\ prev.v.source = None) => last.text = ""
           /\ res = prev

\* A Fault with a captured trace, a context and a source that has a chain
\* of its own was rendered.
C15_Witness ==
    /\ last.op = "Fault::fmt"
    /\ prev.v.backtrace = "Captured"
    /\ Len(prev.v.context) = 1
    /\ Len(prev.v.source) = 1
    /\ prev.v.source[1].ty = "Chain0"
    /\ last.text # ""

\* The last operation was downcast_source on an Err.
Extracted == last.op = "Error::downcast_source" /\ prev.kind = RE /\ prev.tag = "Err"

\* C16 as stated: the extraction in downcast_source yields what
\* Domain::into_source returns (Domain case) or the Fault's own source
\* (Fault case), hence no cause when none is attached.
C16_ExtractsHeldCauseOnly ==
    Extracted
        => /\ prev.v.case = "Domain" => last.arg = DomainError_into_source(prev.v.d)
           /\ prev.v.case = "Fault" => last.arg = prev.v.f.source

\* C16 amended: with a cause attached the extraction yields what
\* Domain::into_source returns (Domain case) or the Fault's own source
\* (Fault case); with no cause attached it yields the wrapped value itself,
\* the Domain value or the Fault, boxed. It never panics.
C16_ExtractsCauseOrWrapped ==
    Extracted
        => /\ last.panic = None
           /\ (prev.v.case = "Domain" /\ is_some(prev.v.d.source))
                => last.arg = DomainError_into_source(prev.v.d)
           /\ (prev.v.case = "Fault" /\ is_some(prev.v.f.source))
                => last.arg = prev.v.f.source
           /\ (prev.v.case = "Domain" /\ is_none(prev.v.d.source))
                => /\ Len(last.arg) = 1
                   /\ last.arg[1].ty = "DomainError"
                   /\ last.arg[1].inner = prev.v.d
           /\ (prev.v.case = "Fault" /\ is_none(prev.v.f.source))
                => /\ Len(last.arg) = 1
                   /\ last.arg[1].ty = "Fault"
                   /\ last.arg[1].inner = prev.v.f

\* A Fault holding no source was downcast to Fault and came back whole.
C16_Witness ==
    /\ Extracted
    /\ prev.v.case = "Fault"
    /\ is_none(prev.v.f.source)
    /\ last.S = "Fault"
    /\ res.tag = "Ok"
    /\ res.v = prev.v.f

\* C17: an Error has exactly one active case: exactly one of is_domain()
\* and is_fault() is true, and it is the one that was true when the Error
\* was built, however many with_context calls came since.
C17_OneCaseForLife ==
    (res.kind = RE /\ res.tag = "Err")
        => /\ is_domain(res.v) # is_fault(res.v)
           /\ Len(origin) = 1
           /\ is_domain(res.v) = is_domain(origin[1])
           /\ is_fault(res.v) = is_fault(origin[1])

\* A Domain error that went through as many with_context calls as the
\* bound allows and no longer equals the Error first built.
C17_Witness ==
    /\ res.kind = RE
    /\ res.tag = "Err"
    /\ is_domain(res.v)
    /\ Len(origin) = 1
    /\ res.v # origin[1]
    /\ Len(ctxLog) = MaxCtxCalls
    /\ last.op = "ResultError::with_context"

\* C18: conversion into Error only wraps: From<Fault> gives the Fault case
\* holding that Fault, From<DomainError> the Domain case holding that
\* value, From<ExitError> and From<HttpError> the Domain case holding a
\* DomainError whose output is the converted value, context included, and
\* whose source is absent; none of them fails.
C18_ConversionsWrap ==
    /\ (last.op = "From<Fault>" /\ prev.tag = "Err")
            => /\ res.kind \in {RE, HRE}
               /\ res.tag = "Err"
               /\ res.v.case = "Fault"
               /\ res.v.f = prev.v
    /\ (last.op = "From<DomainError>" /\ prev.tag = "Err")
            => /\ res.kind = RE
               /\ res.tag = "Err"
               /\ res.v.case = "Domain"
               /\ res.v.d = prev.v
    /\ last.op = "http From<DomainError>"
            => /\ res.kind = HRE
               /\ res.tag = "Err"
               /\ res.v.case = "Domain"
               /\ res.v.d = last.arg[1]
    /\ last.op \in {"From<ExitError>", "From<HttpError>"}
            => /\ res.kind \in {RE, HRE}
               /\ res.tag = "Err"
               /\ res.v.case = "Domain"
               /\ res.v.d.output = last.arg[1]
               /\ res.v.d.output.context = last.arg[1].context
               /\ res.v.d.source = None

\* An HttpError that already had a context was converted.
C18_Witness ==
    /\ last.op = "From<HttpError>"
    /\ Len(last.arg) = 1
    /\ Len(last.arg[1].context) = 1
    /\ last.arg[1].public.json = "object"
    /\ res.tag = "Err"

\* The last operation built the response for an Err(Error).
Responded == last.op = "error_response" /\ prev.kind = HRE /\ prev.tag = "Err"

HttpSources == {None, Some(SqlxRowNotFound), Some(MyError("true"))}

\* C20: the serialized form of an HttpError and of an http DomainError
\* depends only on the public body: every value with the same public body
\* serializes to the same output, whatever its context, status code and
\* source.
C20_SerializedByPublicOnly ==
    (last.op = "serialize" /\ prev.kind = HRE)
        => \A h \in HttpErrors, src \in HttpSources :
              h.public = prev.v.d.output.public
                  => /\ HttpError_serialize(h) = Held
                     /\ HttpDomainError_serialize([output |-> h, source |-> src]) = Held

\* A DomainError with a context and a source was serialized.
C20_Witness ==
    /\ last.op = "serialize"
    /\ last.S = "DomainError"
    /\ Len(prev.v.d.output.context) = 1
    /\ Len(prev.v.d.source) = 1
    /\ res.tag = "Ok"
    /\ res.v = prev.v.d.output.public

\* C21: f.with_source(e) has source e, the context of f and the trace
\* status of f.
C21_WithSourceFrame ==
    (last.op = "Fault::with_source" /\ prev.kind = RF /\ prev.tag = "Err")
        => /\ res.kind = RF
           /\ res.tag = "Err"
           /\ res.v.source = last.arg
           /\ Len(res.v.source) = 1
           /\ res.v.context = prev.v.context
           /\ res.v.backtrace = prev.v.backtrace

\* A Fault with a captured trace, a context and a source was given
\* another source.
C21_Witness ==
    /\ last.op = "Fault::with_source"
    /\ prev.v.backtrace = "Captured"
    /\ Len(prev.v.context) = 1
    /\ Len(prev.v.source) = 1
    /\ prev.v.source # last.arg
    /\ res.v.source = last.arg

\* The Fault inside a held value: bare in a Result<T, Fault>, the Fault
\* case of an Error, or the value unwrap_fault returned.
FaultOf(x) ==
    IF x.kind = RF /\ x.tag = "Err" THEN Some(x.v)
    ELSE IF x.kind \in {RE, HRE} /\ x.tag = "Err" /\ x.v.case = "Fault" THEN Some(x.v.f)
    ELSE IF x.kind = "Fault" THEN Some(x.v)
    ELSE None

\* The operations that take a Fault that already exists.
OnExistingFault ==
    {"Fault::with_source", "Fault::with_context",
     "ResultFaultWithContext::with_context", "From<Fault>", "From<Error>",
     "Error::with_context", "ResultError::with_context", "Error::unwrap_fault",
     "Fault::fmt"}

\* C22: the trace status of a Fault is fixed when it is built: with_source,
\* with_context, conversion into Error, Error::with_context, unwrap_fault
\* and rendering all leave it as it was.
C22_TraceFixedAtConstruction ==
    (last.op \in OnExistingFault /\ Len(FaultOf(prev)) = 1)
        => /\ Len(FaultOf(res)) = 1
           /\ FaultOf(res)[1].backtrace = FaultOf(prev)[1].backtrace
           /\ last.op = "Fault::fmt" => res = prev

\* A Fault built without a trace came out of unwrap_fault, still without
\* one, after it was given a source and a context.
C22_Witness ==
    /\ last.op = "Error::unwrap_fault"
    /\ res.kind = "Fault"
    /\ res.v.backtrace = "Disabled"
    /\ Len(res.v.source) = 1
    /\ Len(res.v.context) = 1
    /\ Len(ctxLog) = MaxCtxCalls

\* The concrete type of the value an Error wraps.
WrappedType(error) == IF error.case = "Domain" THEN "DomainError" ELSE "Fault"

\* The value an Error wraps.
Wrapped(error) == IF error.case = "Domain" THEN error.d ELSE error.f

\* C23: downcast_source::<E> returns Ok exactly when the held source is
\* set and has type E, or no source is set and the wrapped value has type
\* E; Ok holds that source, respectively the wrapped value. Otherwise,
\* also for a source of another type inside a wrapper of type E, it
\* returns Err.
C23_DowncastSourceOrWrapped ==
    Extracted
        => /\ res.kind = RB
           /\ (res.tag = "Ok")
                <=> \/ Matches(prev.v, last.S)
                    \/ (is_none(HeldSource(prev.v)) /\ WrappedType(prev.v) = last.S)
           /\ Matches(prev.v, last.S) => res.v = HeldSource(prev.v)[1]
           /\ (is_none(HeldSource(prev.v)) /\ WrappedType(prev.v) = last.S)
                => res.v = Wrapped(prev.v)
           /\ res.tag # "Ok" => res.tag = "Err"

\* A Fault holding a MyError was downcast to Fault and the answer is Err.
C23_Witness ==
    /\ Extracted
    /\ prev.v.case = "Fault"
    /\ Len(prev.v.f.source) = 1
    /\ prev.v.f.source[1].ty = "MyError"
    /\ last.S = "Fault"
    /\ res.tag = "Err"

\* C24: source() of an Error is never absent: it is the source the wrapped
\* value holds when one is set, and otherwise the wrapped value itself,
\* the Domain value or the Fault.
C24_SourceNeverAbsent ==
    last.op = "Error::source"
        => /\ Len(last.arg) = 1
           /\ is_some(HeldSource(prev.v)) => last.arg = HeldSource(prev.v)
           /\ is_none(HeldSource(prev.v))
                => /\ last.arg[1].ty = WrappedType(prev.v)
                   /\ last.arg[1].inner = Wrapped(prev.v)
           /\ res = prev

\* source() was asked of a Domain error that holds no source.
C24_Witness ==
    /\ last.op = "Error::source"
    /\ prev.v.case = "Domain"
    /\ is_none(prev.v.d.source)
    /\ Len(last.arg) = 1
    /\ last.arg[1].ty = "DomainError"

\* C25: a derived domain error is its own cause: Error::from(v) holds a
\* DomainError whose output is the value From<&V> computes and whose
\* source is v; try_map_on_source over the type of v then matches on an
\* Error built that way and op receives v.
C25_DerivedIsOwnCause ==
    /\ (last.op = "From<MyDomainError>" /\ prev.tag = "Err")
            => /\ res.kind = RE
               /\ res.tag = "Err"
               /\ res.v.case = "Domain"
               /\ res.v.d.output = From_ref_MyDomainError(prev.v)
               /\ res.v.d.source = Some(prev.v)
    /\ last.op = "http From<MyDomainError>"
            => /\ res.kind = HRE
               /\ res.tag = "Err"
               /\ res.v.case = "Domain"
               /\ res.v.d.output = From_ref_HttpMyDomainError(last.arg[1])
               /\ res.v.d.source = last.arg
    /\ (/\ TriedOnErr
        /\ last.S = "MyDomainError"
        /\ Len(last.from) = 1
        /\ last.from[1].case = "Domain"
        /\ \E v \in DomainValues : last.from[1].d = to_domain_error(v))
            => /\ last.calls = 1
               /\ last.arg = last.from[1].d.source
               /\ last.arg[1] \in DomainValues

\* An Error built from a derived domain error, with a context set on the
\* way, was matched on the derived type.
C25_Witness ==
    /\ TriedOnErr
    /\ last.S = "MyDomainError"
    /\ Len(last.from) = 1
    /\ last.from[1].case = "Domain"
    /\ last.from[1].d = to_domain_error(MyDomainError("Bar"))
    /\ last.depth > 0
    /\ last.calls = 1
    /\ last.arg = Some(MyDomainError("Bar"))

\* C26: ResultDomainWithContext::with_context on Err(e) of a derived
\* domain error type gives Err(DomainError) whose context is the given
\* text, also when From<&D> had set one, whose other output fields are
\* those From<&D> computes and whose source is e; on Ok(v) it gives Ok(v).
C26_DomainWithContext ==
    /\ last.op = "ResultDomainWithContext::with_context"
            => IF prev.tag = "Ok" THEN res.tag = "Ok" /\ res.v = prev.v
               ELSE /\ res.kind = RDE
                    /\ res.tag = "Err"
                    /\ res.v.output.context = Some(to_string(last.ctx[1]))
                    /\ res.v.output.message = From_ref_MyDomainError(prev.v).message
                    /\ res.v.output.exit_code = From_ref_MyDomainError(prev.v).exit_code
                    /\ res.v.source = Some(prev.v)
    /\ last.op = "http ResultDomainWithContext::with_context"
            => IF prev.tag = "Ok" THEN res.tag = "Ok" /\ res.v = prev.v
               ELSE /\ res.tag = "Err"
                    /\ res.v.output.context = Some(to_string(last.ctx[1]))
                    /\ res.v.output.http_status_code
                            = From_ref_HttpMyDomainError(prev.v).http_status_code
                    /\ res.v.output.public = From_ref_HttpMyDomainError(prev.v).public
                    /\ res.v.source = Some(prev.v)

\* The derived error's From<&D> had set a context and with_context put
\* another text in its place.
C26_Witness ==
    /\ last.op = "ResultDomainWithContext::with_context"
    /\ prev.tag = "Err"
    /\ Len(From_ref_MyDomainError(prev.v).context) = 1
    /\ res.v.output.context # From_ref_MyDomainError(prev.v).context
    /\ res.v.output.context = Some("42")

\* The source() chain of e as a sequence, e first.
RECURSIVE SourceChain(_)
SourceChain(e) ==
    IF e.src = <<>> THEN <<e>> ELSE <<e>> \o SourceChain(e.src[1])

\* Debug of the first i errors of a chain, an arrow before each but the first.
RECURSIVE Rendered(_, _)
Rendered(chain, i) ==
    IF i = 1 THEN fmt_Debug(chain[1])
    ELSE Rendered(chain, i - 1) \o "->" \o fmt_Debug(chain[i])

\* C27: errors_chain_debug(e0) is Debug(e0) followed, for each error
\* e1..en of e0's source() chain in that order, by an arrow and its Debug,
\* each once; with no source the text is Debug(e0) alone.
C27_ChainRendered ==
    last.op = "errors_chain_debug" =>
        LET chain == SourceChain(last.from[1]) IN
        /\ last.text = Rendered(chain, Len(chain))
        /\ Len(chain) = 1 => last.text = fmt_Debug(last.from[1])
        /\ res = prev

\* A chain of two sources was rendered (the text expected by the test).
C27_Witness ==
    /\ last.op = "errors_chain_debug"
    /\ Len(SourceChain(last.from[1])) = 3
    /\ last.text = "Chain0(Chain1(MyError(true)))->Chain1(MyError(true))->MyError(true)"

\* The borrowed and the owned view of a held cause agree on presence and
\* on concrete type.
SameCause(borrowed, owned) ==
    /\ is_some(borrowed) <=> is_some(owned)
    /\ \A S \in SourceTypes \cup DowncastTypes :
          (is_some(borrowed) /\ is(unwrap_option(borrowed), S))
              <=> (is_some(owned) /\ is(unwrap_option(owned), S))

\* C28: for the exit and the http DomainError and for Fault, source() and
\* the owned extraction (into_source, the source field) give the same
\* cause, so the unwrap calls of try_map_on_source and downcast_source
\* never panic.
C28_UnwrapsNeverPanic ==
    /\ last.op \in {"try_map_on_source", "Error::downcast_source"}
            => last.panic = None /\ res.kind # "!"
    /\ HoldsErr(RE) =>
            IF res.v.case = "Domain"
            THEN SameCause(DomainError_source(res.v.d), DomainError_into_source(res.v.d))
            ELSE SameCause(Fault_source(res.v.f), res.v.f.source)
    /\ HoldsErr(HRE) =>
            IF res.v.case = "Domain"
            THEN SameCause(HttpDomainError_source(res.v.d),
                           HttpDomainError_into_source(res.v.d))
            ELSE SameCause(Fault_source(res.v.f), res.v.f.source)

\* try_map_on_source found the type it was asked for in a DomainError and
\* unwrapped the owned cause for op.
C28_Witness ==
    /\ TriedOnErr
    /\ prev.v.case = "Domain"
    /\ is_some(DomainError_source(prev.v.d))
    /\ is(unwrap_option(DomainError_source(prev.v.d)), last.S)
    /\ last.calls = 1
    /\ last.panic = None

\* The Errors that hold the source src: any output, any trace status, any
\* context around it.
Around(src) ==
    {Error_Domain([output |-> o, source |-> src]) : o \in ExitErrors}
        \cup {Error_Fault([source |-> src, backtrace |-> b, context |-> c]) :
                 b \in {"Captured", "Disabled"}, c \in {None, Some("first")}}

\* C29: on a match the Error returned by try_map_on_source has the
\* context, the case and the trace status of op's return value converted
\* with Into<Error>, and is the same whatever context, trace and output
\* the input carried around the source handed to op.
C29_MatchKeepsNothing ==
    (TriedOnErr /\ Matches(prev.v, last.S)) =>
        LET out == into(apply_op(last.cl, last.arg[1], rustBacktrace)) IN
        /\ res.tag = "Err"
        /\ Error_context(res.v) = Error_context(out)
        /\ res.v.case = out.case
        /\ res.v.case = "Fault" => res.v.f.backtrace = out.f.backtrace
        /\ res.v.case = "Domain" => res.v.d.output = out.d.output
        /\ \A e \in Around(HeldSource(prev.v)) :
              Hold(RE, try_map_on_source(Err(e), last.S, last.cl, rustBacktrace).out) = res

\* A Fault with a context and a captured trace was matched; the returned
\* Fault has neither.
C29_Witness ==
    /\ TriedOnErr
    /\ Matches(prev.v, last.S)
    /\ prev.v.case = "Fault"
    /\ prev.v.f.backtrace = "Captured"
    /\ is_some(prev.v.f.context)
    /\ res.v.case = "Fault"
    /\ res.v.f.backtrace = "Disabled"
    /\ is_none(res.v.f.context)

\* The last operation was downcast_source_ref on an Err.
Borrowed == last.op = "Error::downcast_source_ref" /\ prev.kind = RE /\ prev.tag = "Err"

\* C30: downcast_source_ref::<E>() is Some exactly when
\* downcast_source::<E>() is Ok, both designate the same value (the held
\* source when set, otherwise the wrapped Domain value or Fault), and the
\* borrowing call leaves the Error unchanged.
C30_RefAgreesWithConsuming ==
    Borrowed =>
        LET owned == downcast_source(prev.v, last.S).out IN
        /\ is_some(last.arg) <=> owned.tag = "Ok"
        /\ is_some(last.arg) => unbox(last.arg[1]) = owned.v
        /\ res = prev

====
